---------------------------- MODULE Spec2Model ----------------------------
(***************************************************************************)
(* Model of the event aggregation scripts:                                 *)
(*   football_scraper.py  - fetch two feeds, merge them into the persisted *)
(*                          collection live_events.json, save it;          *)
(*   winterfell_scribe.py - fetch one feed, upsert it by match_id into     *)
(*                          streamed_events.json, expire old records.      *)
(*                                                                         *)
(* Time is counted in whole minutes since 1970-01-01 00:00.  A date or a   *)
(* time STRING of a record is modelled by how it parses: its tag says      *)
(* which kind of string it is and, for a string made of decimal pieces     *)
(* around '-' or ':', parts holds the integers int() returns for them.     *)
(* The process clock is taken to be UTC, so the naive local now() and the  *)
(* aware now(timezone.utc) denote the same minute.                         *)
(***************************************************************************)
EXTENDS Integers, Sequences, FiniteSets, TLC

VARIABLES
    now,            \* the wall clock, minutes since the epoch
    pc,             \* position of football_scraper.main in its cycle
    cycle,          \* number of the current football_scraper cycle
    file_state,     \* live_events.json: "absent", "complete", "empty", "partial"
    file_data,      \* live_events.json: the array it holds (the part written, when partial)
    new_matches,    \* main: all_new_matches (the batch of this cycle)
    existing_data,  \* main: existing_data as loaded
    cleaned,        \* merge_with_existing_data: existing_matches after line 510
    existing_lookup,\* merge_with_existing_data: the lookup as built by lines 512-524
    final_matches,  \* main: final_matches (the merge's return value)
    new_count,      \* merge_with_existing_data: new_count
    updated_count,  \* merge_with_existing_data: updated_count
    previous,       \* history: the batch, clock and outcome of the cycle before this one
    apc,            \* position of winterfell_scribe's run
    archive_state,  \* streamed_events.json: "absent", "complete", "empty", "partial"
    archive_file,   \* streamed_events.json: the array it holds
    archives,       \* update_archives: the dict archives after the upsert loop, in dict order
    new_data,       \* update_archives: new_data (scribe_events' result), in dict order
    clean_archives, \* update_archives: clean_archives as written
    fetched         \* what each feed answered in this run, and the fetcher that raised

vars == <<now, pc, cycle, file_state, file_data, new_matches, existing_data,
          cleaned, existing_lookup, final_matches, new_count, updated_count,
          previous, apc, archive_state, archive_file, archives, new_data, clean_archives,
          fetched>>

scraperVars == <<pc, cycle, file_state, file_data, new_matches, existing_data,
                 cleaned, existing_lookup, final_matches, new_count, updated_count,
                 previous>>

scribeVars == <<apc, archive_state, archive_file, archives, new_data, clean_archives>>

---------------------------------------------------------------------------
(* Configuration                                                           *)

DEFAULT_LOGO_URL == "logos/default.png"
DEFAULT_SIGIL == "logos/myicon.png"
MATCH_CLEANUP_HOURS == 25
ANCIENT_SCROLL_LIMIT == 12 * 3600

\* A record of the JSON file that lacks the key source_name.
NoSource == "<no source_name>"

---------------------------------------------------------------------------
(* Bounds of the model                                                     *)

MaxBatch == 2       \* records fetched in one cycle
MaxInitial == 1     \* records in live_events.json before the first cycle
MaxCycles == 2      \* cycles of football_scraper
MaxExisting == 2    \* persisted records handed to the merge in the merge specification
MaxClean == 2       \* records handed to a cleaner in the retention specification
MaxFresh == 1       \* records scribe_events returns in one run

---------------------------------------------------------------------------
(* Date and time strings, and the datetime built from them                 *)

Str(tag) == [tag |-> tag, parts |-> <<>>]
Num(parts) == [tag |-> "num", parts |-> parts]

Missing == Str("missing")      \* the record has no such key
Empty == Str("empty")          \* ""
NotFound == Str("Not Found")   \* the sentinel "Not Found"
Text == Str("text")            \* a string with a piece int() rejects, e.g. "tomorrow"
Huge == Str("huge")            \* well-formed decimal pieces, one of them >= 2^31

IsLeap(y) == (y % 4 = 0) /\ ((y % 100 # 0) \/ (y % 400 = 0))

DaysInMonth(y, m) ==
    IF m = 2 THEN (IF IsLeap(y) THEN 29 ELSE 28)
    ELSE IF m \in {4, 6, 9, 11} THEN 30 ELSE 31

RECURSIVE DaysBeforeMonth(_, _)
DaysBeforeMonth(y, m) ==
    IF m <= 1 THEN 0 ELSE DaysBeforeMonth(y, m - 1) + DaysInMonth(y, m - 1)

DaysBeforeYear(y) ==
    (y - 1) * 365 + ((y - 1) \div 4) - ((y - 1) \div 100) + ((y - 1) \div 400)

\* datetime.toordinal(): day 1 is 0001-01-01.
Ordinal(y, m, d) == DaysBeforeYear(y) + DaysBeforeMonth(y, m) + d

\* datetime(year, month, day, hour, minute) raises ValueError outside these ranges.
ValidDateTime(dmy, hm) ==
    /\ dmy[3] \in 1..9999
    /\ dmy[2] \in 1..12
    /\ dmy[1] \in 1..DaysInMonth(dmy[3], dmy[2])
    /\ hm[1] \in 0..23
    /\ hm[2] \in 0..59

\* The naive datetime as minutes since 1970-01-01 00:00.
Minutes(dmy, hm) ==
    (Ordinal(dmy[3], dmy[2], dmy[1]) - Ordinal(1970, 1, 1)) * 1440 + hm[1] * 60 + hm[2]

---------------------------------------------------------------------------
(* Event records                                                           *)

\* The key _timestamp absent or null (record.get("_timestamp") is None).
NoTimestamp == -1

\* Python's truth test of a timestamp (if ts, if not event_timestamp_ms):
\* None and the number 0 are false.
Truthy(ts) == ts \notin {NoTimestamp, 0}

\* One element of the JSON array.  timestamp is the key _timestamp (epoch
\* milliseconds in the file, whole minutes here), NoTimestamp when the key
\* is absent or null.  match_id "" stands for a value that Python treats as
\* false: the key absent, null or "".
Rec(src, n1, l1, n2, l2, d, t, ls, mid, ts) ==
    [source_name |-> src,
     team1 |-> [name |-> n1, logo_url |-> l1],
     team2 |-> [name |-> n2, logo_url |-> l2],
     date |-> d, time |-> t, links |-> ls, match_id |-> mid, timestamp |-> ts]

Range(s) == {s[i] : i \in 1..Len(s)}

\* All sequences over S of length at most n.
SeqUpTo(S, n) == UNION {[1..k -> S] : k \in 0..n}

\* All orders of the elements of the set S (random.shuffle of list(S)).
Perms(S) == {s \in [1..Cardinality(S) -> S] : Range(s) = S}

---------------------------------------------------------------------------
(* football_scraper.py: cleanup_old_matches                                *)

\* The comparison as a slip would write it: a kickoff at the cutoff counts as old.
OlderThanCutoff_Inclusive(kickoff, clock) ==
    kickoff <= clock - MATCH_CLEANUP_HOURS * 60

\* Lines 46 and 70: match_datetime < cutoff_time.
OlderThanCutoff(kickoff, clock) ==
    kickoff < clock - MATCH_CLEANUP_HOURS * 60

\* What the loop body (lines 51-81) does with one match: "keep" it,
\* "remove" it, or "raise" (an exception the except clause does not name).
MatchOutcome(match, clock) ==
    LET d == match.date
        t == match.time
    IN  IF d.tag \in {"missing", "empty", "Not Found"}
           \/ t.tag \in {"missing", "empty", "Not Found"}
        THEN "keep"                                   \* line 56
        ELSE IF d.tag = "text" \/ (d.tag = "num" /\ Len(d.parts) # 3)
        THEN "keep"                                   \* line 62: ValueError
        ELSE IF t.tag = "text" \/ (t.tag = "num" /\ Len(t.parts) # 2)
        THEN "keep"                                   \* line 64: ValueError
        ELSE IF d.tag = "huge" \/ t.tag = "huge"
        THEN "raise"                                  \* line 67: OverflowError
        ELSE IF ~ValidDateTime(d.parts, t.parts)
        THEN "keep"                                   \* line 67: ValueError
        ELSE IF OlderThanCutoff(Minutes(d.parts, t.parts), clock)
        THEN "remove"                                 \* line 70
        ELSE "keep"

KeptByCleanup(match, clock) == MatchOutcome(match, clock) = "keep"

CleanupRaises(matches, clock) ==
    \E i \in 1..Len(matches) : MatchOutcome(matches[i], clock) = "raise"

\* The list cleanup_old_matches returns, when it returns.
cleanup_old_matches(matches, clock) ==
    SelectSeq(matches, LAMBDA m : KeptByCleanup(m, clock))

---------------------------------------------------------------------------
(* football_scraper.py: merge_with_existing_data                           *)

\* The lookup key of lines 523 and 531.
Key(match) ==
    <<match.source_name, match.team1.name, match.team2.name, match.date>>

\* Position of the key k in the lookup, 0 when the lookup does not hold it.
\* The lookup is a dict: modelled as the sequence of its values in insertion
\* order, with pairwise different keys.
IndexOfKey(lookup, k) ==
    IF \E i \in 1..Len(lookup) : Key(lookup[i]) = k
    THEN CHOOSE i \in 1..Len(lookup) : Key(lookup[i]) = k
    ELSE 0

\* The deletion as a slip would write it: the entry stays in the lookup.
RemoveAt_Nothing(s, j) == s

\* del existing_lookup[key] (line 564): the other entries keep their order.
RemoveAt(s, j) == [i \in 1..(Len(s) - 1) |-> IF i < j THEN s[i] ELSE s[i + 1]]

\* existing_lookup[key] = match (line 524): a key already there keeps its
\* place and takes the new value.
LookupPut(lookup, match) ==
    LET j == IndexOfKey(lookup, Key(match))
    IN  IF j = 0 THEN Append(lookup, match) ELSE [lookup EXCEPT ![j] = match]

\* The lookup as it would be built without the test of line 516.
RECURSIVE BuildLookup_KeepLegacy(_)
BuildLookup_KeepLegacy(matches) ==
    IF matches = <<>> THEN <<>>
    ELSE LET n == Len(matches)
             before == BuildLookup_KeepLegacy(SubSeq(matches, 1, n - 1))
         IN  LookupPut(before, matches[n])

\* Lines 512-524: records without source_name are skipped.
RECURSIVE BuildLookup(_)
BuildLookup(matches) ==
    IF matches = <<>> THEN <<>>
    ELSE LET n == Len(matches)
             before == BuildLookup(SubSeq(matches, 1, n - 1))
         IN  IF matches[n].source_name = NoSource
             THEN before
             ELSE LookupPut(before, matches[n])

\* Line 523 reads match["date"]: KeyError when the record has no date.
LookupRaises(matches) ==
    \E i \in 1..Len(matches) :
        matches[i].source_name # NoSource /\ matches[i].date.tag = "missing"

\* The logo update as a slip would write it: the batch's real logo always wins.
MergedLogo_TakeNew(existing_logo, new_logo) ==
    IF new_logo # DEFAULT_LOGO_URL THEN new_logo ELSE existing_logo

\* Lines 539-547: a placeholder logo is replaced by the batch's real one.
MergedLogo(existing_logo, new_logo) ==
    IF existing_logo = DEFAULT_LOGO_URL /\ new_logo # DEFAULT_LOGO_URL
    THEN new_logo
    ELSE existing_logo

\* Line 554: the links are replaced when the union has more elements than
\* the stored list has entries.
LinksGrow(existing_links, new_links) ==
    Cardinality(Range(existing_links) \cup Range(new_links)) > Len(existing_links)

\* The link merge as a slip would write it: the batch's links replace the stored ones.
MergedLinks_Replace(existing_links, new_links) ==
    IF LinksGrow(existing_links, new_links)
    THEN Perms(Range(new_links))
    ELSE {existing_links}

\* Lines 550-557: the link lists the matched record can end up with.
MergedLinks(existing_links, new_links) ==
    IF LinksGrow(existing_links, new_links)
    THEN Perms(Range(existing_links) \cup Range(new_links))
    ELSE {existing_links}

\* Lines 530-569: the loop over the batch from its i-th record on, in the
\* state st = [lookup, merged, new_count, updated_count]; the set of states
\* it can end in (random.shuffle decides which).
RECURSIVE MergeLoop(_, _, _)
MergeLoop(batch, i, st) ==
    IF i > Len(batch) THEN {st}
    ELSE
      LET new_match == batch[i]
          j == IndexOfKey(st.lookup, Key(new_match))
      IN  IF j = 0
          THEN MergeLoop(batch, i + 1,
                         [st EXCEPT !.merged = Append(@, new_match),
                                    !.new_count = @ + 1])
          ELSE
            LET existing_match == st.lookup[j]
                logo1 == MergedLogo(existing_match.team1.logo_url,
                                    new_match.team1.logo_url)
                logo2 == MergedLogo(existing_match.team2.logo_url,
                                    new_match.team2.logo_url)
                needs_update ==
                    \/ logo1 # existing_match.team1.logo_url
                    \/ logo2 # existing_match.team2.logo_url
                    \/ LinksGrow(existing_match.links, new_match.links)
            IN  UNION {
                  MergeLoop(batch, i + 1,
                    [lookup |-> RemoveAt(st.lookup, j),
                     merged |-> Append(st.merged,
                                  [existing_match EXCEPT
                                      !.team1.logo_url = logo1,
                                      !.team2.logo_url = logo2,
                                      !.links = ls]),
                     new_count |-> st.new_count,
                     updated_count |-> st.updated_count
                                         + (IF needs_update THEN 1 ELSE 0)])
                  : ls \in MergedLinks(existing_match.links, new_match.links) }

\* merge_with_existing_data(new, existing) when it returns: the states the
\* function can end in, the unclaimed records appended (lines 572-573).
merge_with_existing_data(new, existing, clock) ==
    LET kept == cleanup_old_matches(existing, clock)
        ends == MergeLoop(new, 1, [lookup |-> BuildLookup(kept),
                                   merged |-> <<>>,
                                   new_count |-> 0,
                                   updated_count |-> 0])
    IN  { [merged |-> e.merged \o e.lookup,
           new_count |-> e.new_count,
           updated_count |-> e.updated_count] : e \in ends }

MergeRaises(existing, clock) ==
    \/ CleanupRaises(existing, clock)
    \/ LookupRaises(cleanup_old_matches(existing, clock))

---------------------------------------------------------------------------
(* What the feeds answer                                                   *)

\* The value of a "name" key in a feed entry: a name, a blank string, JSON
\* null, or no such key (also: no "teams", no "home", no "away").
RawMissing == "<missing>"
RawNull == "<null>"
Blank == " "

\* str.strip() on the strings the model uses.
Strip(s) == IF s = Blank THEN "" ELSE s

\* The value of the "date" key of a feed entry: epoch milliseconds (whole
\* minutes here), no such key or null, a string, a number no datetime holds.
Ms(minutes) == [tag |-> "ms", minutes |-> minutes]
NoTs == [tag |-> "missing", minutes |-> 0]
TextTs == [tag |-> "text", minutes |-> 0]
HugeTs == [tag |-> "huge", minutes |-> 0]

\* Values of "embedUrl": besides "u1", "u2", ... (absolute http URLs), an
\* absolute URL with "admin" in it, a URL without scheme, and "" for an
\* empty or absent value.
AdminUrl == "https://host/admin/1"
RelativeUrl == "/embed/1"

\* One entry of the array /api/matches/all answers.  sources holds, for
\* each element of the entry's "sources", the array its /api/stream URL
\* answers, as the sequence of the embedUrl values (<<>> when that fetch
\* fails or answers no array).
Entry(id, category, home, home_badge, away, away_badge, date, sources) ==
    [id |-> id, category |-> category,
     home |-> home, home_badge |-> home_badge,
     away |-> away, away_badge |-> away_badge,
     date |-> date, sources |-> sources]

\* What fetch_data and consult_the_scrolls hand back for /api/matches/all:
\* nothing (the request failed, or the body is empty), an array of entries,
\* or something else (a page of text, a JSON object).
NoAnswer == [kind |-> "error", entries |-> <<>>]
Other == [kind |-> "other", entries |-> <<>>]
Listing(entries) == [kind |-> "list", entries |-> entries]

\* strftime("%d-%m-%Y") and strftime("%H:%M") of the datetime at the given
\* minute since the epoch.
DateOf(minutes) ==
    LET ord == (minutes \div 1440) + Ordinal(1970, 1, 1)
        y == CHOOSE yy \in 1970..2100 :
                DaysBeforeYear(yy) < ord /\ ord <= DaysBeforeYear(yy + 1)
        doy == ord - DaysBeforeYear(y)
        m == CHOOSE mm \in 1..12 :
                /\ DaysBeforeMonth(y, mm) < doy
                /\ doy <= DaysBeforeMonth(y, mm) + DaysInMonth(y, mm)
    IN  Num(<<doy - DaysBeforeMonth(y, m), m, y>>)

TimeOf(minutes) == Num(<<(minutes % 1440) \div 60, minutes % 60>>)

---------------------------------------------------------------------------
(* football_scraper.py: the fetchers                                       *)

\* is_valid_team_data (lines 177-183).
is_valid_team_data(team1_name, team2_name) ==
    LET invalid_values == {"Not Found", "Name Not Found", "", RawNull}
    IN  /\ team1_name \notin invalid_values
        /\ team2_name \notin invalid_values
        /\ Strip(team1_name) # ""
        /\ Strip(team2_name) # ""

\* get_match_date_from_timestamp behind the test of line 224: <<time, date>>,
\* the sentinel twice for a value that is no positive number or that
\* fromtimestamp rejects.
get_match_date_from_timestamp(date) ==
    IF date.tag = "ms" /\ date.minutes > 0
    THEN <<TimeOf(date.minutes), DateOf(date.minutes)>>
    ELSE <<NotFound, NotFound>>

\* Lines 230-246: a team of the output record.  The name stays "Not Found"
\* and the logo the default unless the stripped name is non-empty.
BadgeLogo(badge) ==
    CASE badge = "ars" -> "badge/ars.webp"
      [] badge = "che" -> "badge/che.webp"
      [] OTHER -> "badge/other.webp"

StreamedTeam(name, badge) ==
    IF name = RawMissing \/ Strip(name) = ""
    THEN [name |-> "Not Found", logo_url |-> DEFAULT_LOGO_URL]
    ELSE [name |-> Strip(name),
          logo_url |-> IF badge = "" THEN DEFAULT_LOGO_URL ELSE BadgeLogo(badge)]

\* Line 270: the embedUrl values fetch_streamed_matches accepts.
IsStreamUrl(embed_url) ==
    embed_url # "" /\ embed_url # AdminUrl /\ embed_url # RelativeUrl

\* Lines 256-272: the accepted URLs of all sources, in order, each time
\* they occur.
RECURSIVE StreamLinks(_)
StreamLinks(sources) ==
    IF sources = <<>> THEN <<>>
    ELSE SelectSeq(Head(sources), IsStreamUrl) \o StreamLinks(Tail(sources))

\* The tests of the loop without the one of lines 274-276.
StreamedKeeps_AnyLinks(match) ==
    /\ match.category = "football"
    /\ is_valid_team_data(StreamedTeam(match.home, match.home_badge).name,
                          StreamedTeam(match.away, match.away_badge).name)
    /\ get_match_date_from_timestamp(match.date)[1] # NotFound

\* Lines 213-276: the entry passes every "continue".
StreamedKeeps(match) ==
    /\ match.category = "football"
    /\ is_valid_team_data(StreamedTeam(match.home, match.home_badge).name,
                          StreamedTeam(match.away, match.away_badge).name)
    /\ get_match_date_from_timestamp(match.date)[1] # NotFound
    /\ StreamLinks(match.sources) # <<>>

\* Lines 274-276: the entry got as far as the test of its links and is
\* skipped there.
StreamedSkipsNoLinks(match) ==
    /\ match.category = "football"
    /\ is_valid_team_data(StreamedTeam(match.home, match.home_badge).name,
                          StreamedTeam(match.away, match.away_badge).name)
    /\ get_match_date_from_timestamp(match.date)[1] # NotFound
    /\ StreamLinks(match.sources) = <<>>

\* Lines 278-287.
StreamedRecord(match) ==
    [source_name |-> "Drogon",
     team1 |-> StreamedTeam(match.home, match.home_badge),
     team2 |-> StreamedTeam(match.away, match.away_badge),
     date |-> get_match_date_from_timestamp(match.date)[2],
     time |-> get_match_date_from_timestamp(match.date)[1],
     links |-> StreamLinks(match.sources),
     match_id |-> "", timestamp |-> NoTimestamp]

\* Lines 213-289, the loop over an array of entries.
RECURSIVE StreamedLoop(_)
StreamedLoop(entries) ==
    IF entries = <<>> THEN <<>>
    ELSE (IF StreamedKeeps(Head(entries)) THEN <<StreamedRecord(Head(entries))>> ELSE <<>>)
         \o StreamedLoop(Tail(entries))

\* fetch_streamed_matches (lines 199-291) when it returns.
fetch_streamed_matches(api_matches) ==
    IF api_matches.kind = "error" THEN <<>> ELSE StreamedLoop(api_matches.entries)

\* fetch_streamed_matches raising AttributeError: the answer is text or an
\* object, whose elements have no .get (line 214), or a football entry's
\* team name is null, which has no .strip (lines 233, 241).
StreamedRaises(api_matches) ==
    \/ api_matches.kind = "other"
    \/ \E i \in 1..Len(api_matches.entries) :
          /\ api_matches.entries[i].category = "football"
          /\ \/ api_matches.entries[i].home = RawNull
             \/ api_matches.entries[i].away = RawNull

\* One "HH:MM home vs away | url" line of today's section of the
\* sportsonline page.
Line(hm, home, away, url) == [time |-> hm, home |-> home, away |-> away, url |-> url]

\* What fetch_sportsonline_data returns: "" on any exception (lines 310-312),
\* else the text of the page, here its lines of today's section.
NoPage == [kind |-> "error", lines |-> <<>>]
Page(lines) == [kind |-> "text", lines |-> lines]

\* subtract_hour_from_time (lines 319-331): a time outside the clock's range
\* is returned as it is.
subtract_hour_from_time(hm) ==
    IF hm[1] \in 0..23 /\ hm[2] \in 0..59 THEN <<(hm[1] + 23) % 24, hm[2]>> ELSE hm

\* parse_sportsonline_data, lines 370-399: a line is taken when its URL is
\* absolute and both sides of " vs " are non-blank; its time is moved back
\* one hour.
RECURSIVE parse_sportsonline_data(_)
parse_sportsonline_data(lines) ==
    IF lines = <<>> THEN <<>>
    ELSE LET l == Head(lines)
         IN  (IF l.url # RelativeUrl /\ l.url # ""
                 /\ Strip(l.home) # "" /\ Strip(l.away) # ""
              THEN <<[l EXCEPT !.time = subtract_hour_from_time(l.time)]>>
              ELSE <<>>)
             \o parse_sportsonline_data(Tail(lines))

\* Lines 408-412: the key of a parsed line, (time, title).
GroupKey(l) == <<l.time, l.home, l.away>>

\* Lines 410-417: the keys of the dict grouped, in insertion order.
RECURSIVE GroupKeys(_, _)
GroupKeys(parsed, seen) ==
    IF parsed = <<>> THEN seen
    ELSE GroupKeys(Tail(parsed),
                   IF GroupKey(Head(parsed)) \in Range(seen) THEN seen
                   ELSE Append(seen, GroupKey(Head(parsed))))

\* Lines 419-424: sort_key, minutes since midnight, the small hours last.
sort_key(key) ==
    LET hm == key[1]
        minutes == IF hm[1] \in 0..23 /\ hm[2] \in 0..59 THEN hm[1] * 60 + hm[2] ELSE 0
    IN  IF minutes < 360 THEN minutes + 1440 ELSE minutes

\* Line 426: sorted(), stable.
RECURSIVE InsertBySortKey(_, _)
InsertBySortKey(sorted, key) ==
    IF sorted = <<>> THEN <<key>>
    ELSE IF sort_key(sorted[Len(sorted)]) <= sort_key(key)
    THEN Append(sorted, key)
    ELSE Append(InsertBySortKey(SubSeq(sorted, 1, Len(sorted) - 1), key),
                sorted[Len(sorted)])

RECURSIVE SortGroups(_)
SortGroups(keys) ==
    IF keys = <<>> THEN <<>>
    ELSE InsertBySortKey(SortGroups(SubSeq(keys, 1, Len(keys) - 1)), keys[Len(keys)])

\* Lines 440-445: the URLs of a group, each once, in order of first occurrence.
RECURSIVE UniqueStreams(_, _)
UniqueStreams(stream_urls, seen) ==
    IF stream_urls = <<>> THEN seen
    ELSE UniqueStreams(Tail(stream_urls),
                       IF Head(stream_urls) \in Range(seen)
                          \/ Head(stream_urls) = RelativeUrl \/ Head(stream_urls) = ""
                       THEN seen ELSE Append(seen, Head(stream_urls)))

GroupUrls(parsed, key) ==
    LET mine == SelectSeq(parsed, LAMBDA l : GroupKey(l) = key)
    IN  [i \in 1..Len(mine) |-> mine[i].url]

\* Lines 450-461: today's date, tomorrow's for a kickoff in the small hours
\* seen in the evening.
SportsDate(hm, clock) ==
    IF hm[1] \in 0..5 /\ (clock % 1440) \div 60 >= 18
    THEN DateOf(clock + 1440) ELSE DateOf(clock)

\* Lines 428-474, the loop over the sorted groups.
RECURSIVE GroupLoop(_, _, _)
GroupLoop(keys, parsed, clock) ==
    IF keys = <<>> THEN <<>>
    ELSE LET key == Head(keys)
             team1_name == Strip(key[2])
             team2_name == Strip(key[3])
             unique_streams == UniqueStreams(GroupUrls(parsed, key), <<>>)
         IN  (IF is_valid_team_data(team1_name, team2_name) /\ unique_streams # <<>>
              THEN <<[source_name |-> "THE BETTER BASTARD",
                      team1 |-> [name |-> team1_name, logo_url |-> DEFAULT_LOGO_URL],
                      team2 |-> [name |-> team2_name, logo_url |-> DEFAULT_LOGO_URL],
                      date |-> SportsDate(key[1], clock), time |-> Num(key[1]),
                      links |-> unique_streams, match_id |-> "", timestamp |-> NoTimestamp]>>
              ELSE <<>>)
             \o GroupLoop(Tail(keys), parsed, clock)

\* group_sportsonline_matches (lines 406-476).
group_sportsonline_matches(parsed_matches, clock) ==
    GroupLoop(SortGroups(GroupKeys(parsed_matches, <<>>)), parsed_matches, clock)

\* fetch_sportsonline_matches (lines 478-493): fetch, parse, group.  It
\* never raises: the fetch and the parse catch every exception.
fetch_sportsonline_matches(raw_data, clock) ==
    group_sportsonline_matches(parse_sportsonline_data(raw_data.lines), clock)

---------------------------------------------------------------------------
(* The records the model draws its inputs from                             *)

D1 == Num(<<1, 3, 2026>>)       \* "01-03-2026"
D2 == Num(<<2, 3, 2026>>)       \* "02-03-2026"
T0959 == Num(<<9, 59>>)         \* "09:59"
T1000 == Num(<<10, 0>>)         \* "10:00"

\* The clock at the first run: 02-03-2026 11:00, which is 25 hours after
\* 01-03-2026 10:00 to the minute.
Now0 == Minutes(<<2, 3, 2026>>, <<11, 0>>)

\* A record as fetch_streamed_matches builds it (lines 278-287).
Drogon(n1, l1, d, t, ls) ==
    Rec("Drogon", n1, l1, "Chelsea", DEFAULT_LOGO_URL, d, t, ls, "", NoTimestamp)

\* A record as group_sportsonline_matches builds it (lines 463-472).
Bastard(n1, d, t, ls) ==
    Rec("THE BETTER BASTARD", n1, DEFAULT_LOGO_URL, "Chelsea", DEFAULT_LOGO_URL,
        d, t, ls, "", NoTimestamp)

\* What one cycle's fetch can hold (the fetchers emit these records for
\* entries of StreamedPool and SportsPool): records of both feeds, some with
\* the same key, with more links, with a real logo, with a kickoff at, before
\* and after the retention cutoff.
BatchPool ==
    { Drogon("Arsenal", DEFAULT_LOGO_URL, D1, T1000, <<"u1">>),
      Drogon("Arsenal", DEFAULT_LOGO_URL, D1, T1000, <<"u1", "u1">>),
      Drogon("Arsenal", DEFAULT_LOGO_URL, D1, T1000, <<"u1", "u2">>),
      [Drogon("Arsenal", "badge/ars.webp", D1, T1000, <<"u2">>)
          EXCEPT !.team2.logo_url = "badge/che.webp"],
      Drogon("Arsenal", DEFAULT_LOGO_URL, D1, T0959, <<"u1">>),
      Drogon("Arsenal", DEFAULT_LOGO_URL, D2, T1000, <<"u1">>),
      Drogon("arsenal", DEFAULT_LOGO_URL, D1, T1000, <<"u1">>),
      Bastard("Arsenal", D2, T1000, <<"u1">>) }

\* What live_events.json can hold before the first cycle, besides nothing:
\* a record of an older script version (no source_name), a record without a
\* usable date, a record whose year does not fit a C int, a regular record
\* with a logo of its own, a record without the key date.
InitialPool ==
    { Rec(NoSource, "Arsenal", DEFAULT_LOGO_URL, "Chelsea", DEFAULT_LOGO_URL,
          D2, T1000, <<"u1">>, "", NoTimestamp),
      Drogon("Arsenal", DEFAULT_LOGO_URL, NotFound, NotFound, <<"u1">>),
      Drogon("Arsenal", DEFAULT_LOGO_URL, Huge, T1000, <<"u1">>),
      Drogon("Arsenal", "badge/old.webp", D1, T1000, <<"u1", "u2">>),
      Drogon("Arsenal", DEFAULT_LOGO_URL, Missing, T1000, <<"u1">>) }

\* What /api/matches/all can list: the entries the records of BatchPool
\* come from (one source, two sources with the same URL, one source with
\* two URLs, badges, other kickoffs, another spelling) and entries that
\* are not well-formed: a null name, a blank name, no away team, no date,
\* a date no datetime holds, no usable stream, another sport.
Football(home, home_badge, away_badge, minutes, sources) ==
    Entry("", "football", home, home_badge, "Chelsea", away_badge, Ms(minutes), sources)

StreamedPool ==
    { Football("Arsenal", "", "", Now0 - 1500, << <<"u1">> >>),
      Football("Arsenal", "", "", Now0 - 1500, << <<"u1">>, <<"u1">> >>),
      Football("Arsenal", "", "", Now0 - 1500, << <<"u1", "u2">> >>),
      Football("Arsenal", "ars", "che", Now0 - 1500, << <<"u2">> >>),
      Football("Arsenal", "", "", Now0 - 1501, << <<"u1">> >>),
      Football("Arsenal", "", "", Now0 - 60, << <<"u1">> >>),
      Football("arsenal", "", "", Now0 - 1500, << <<"u1">> >>),
      Football(RawNull, "", "", Now0 - 1500, << <<"u1">> >>),
      Football(Blank, "", "", Now0 - 1500, << <<"u1">> >>),
      Entry("", "football", "Arsenal", "", RawMissing, "", Ms(Now0 - 1500), << <<"u1">> >>),
      Entry("", "football", "Arsenal", "", "Chelsea", "", NoTs, << <<"u1">> >>),
      Entry("", "football", "Arsenal", "", "Chelsea", "", HugeTs, << <<"u1">> >>),
      Football("Arsenal", "", "", Now0 - 1500, << <<AdminUrl, RelativeUrl, "">>, <<>> >>),
      Entry("", "basketball", RawNull, "", "Chelsea", "", Ms(Now0 - 1500), << <<"u1">> >>) }

\* The lines today's section of the sportsonline page can hold: a fixture
\* under two URLs, a line whose URL has no scheme, a line without away team.
SportsPool ==
    { Line(<<11, 0>>, "Arsenal", "Chelsea", "u1"),
      Line(<<11, 0>>, "Arsenal", "Chelsea", "u2"),
      Line(<<11, 0>>, "Arsenal", "Chelsea", RelativeUrl),
      Line(<<11, 0>>, "Arsenal", Blank, "u1") }

\* The answers to the two requests of one cycle, n entries and lines in all.
StreamedAnswers(n) == {NoAnswer, Other} \cup {Listing(e) : e \in SeqUpTo(StreamedPool, n)}
SportsAnswers(n) == {NoPage} \cup {Page(l) : l \in SeqUpTo(SportsPool, n)}

\* What line 600 can come to, for every answer: the kind of the answer,
\* whether fetch_streamed_matches raises, the list it returns otherwise,
\* the number of entries it skipped for want of a link, and the number of
\* entries the answer held.
StreamedOutcomes ==
    { [kind |-> s.kind, raises |-> StreamedRaises(s),
       matches |-> IF StreamedRaises(s) THEN <<>> ELSE fetch_streamed_matches(s),
       no_links |-> IF StreamedRaises(s) THEN 0
                    ELSE Len(SelectSeq(s.entries, StreamedSkipsNoLinks)),
       size |-> Len(s.entries)] : s \in StreamedAnswers(MaxBatch) }

\* What line 601 can come to at each minute of the clock.
Clocks == Now0..(Now0 + MaxCycles)

SportsOutcomes ==
    [clock \in Clocks |->
        { [kind |-> b.kind, matches |-> fetch_sportsonline_matches(b, clock),
           size |-> Len(b.lines)] : b \in SportsAnswers(MaxBatch) }]

\* The variable fetched: the kind of each answer ("none" before the
\* request), the number of entries skipped for want of a link, and the name
\* of the fetcher whose exception ended the run.
NotFetched ==
    [streamed |-> "none", sportsonline |-> "none", scrolls |-> "none",
     no_links |-> 0, raised |-> ""]

---------------------------------------------------------------------------
(* football_scraper.py: main, one action per call it makes                 *)

ScraperIdle ==
    /\ new_matches = <<>>
    /\ existing_data = <<>>
    /\ cleaned = <<>>
    /\ existing_lookup = <<>>
    /\ final_matches = <<>>
    /\ new_count = 0
    /\ updated_count = 0

ScribeOff ==
    /\ apc = "off"
    /\ archive_state = "absent"
    /\ archive_file = <<>>
    /\ archives = <<>>
    /\ new_data = <<>>
    /\ clean_archives = <<>>

Init ==
    /\ now = Now0
    /\ pc = "idle"
    /\ cycle = 1
    /\ previous = [batch |-> <<>>, clock |-> 0, saved |-> FALSE]
    /\ \/ file_state = "absent" /\ file_data = <<>>
       \/ file_state = "complete" /\ file_data \in SeqUpTo(InitialPool, MaxInitial)
    /\ ScraperIdle
    /\ ScribeOff
    /\ fetched = NotFetched

\* Lines 600-604: both fetchers run and their lists are concatenated.
Fetch ==
    /\ pc = "idle"
    /\ \E s \in StreamedOutcomes, b \in SportsOutcomes[now] :
          /\ ~s.raises
          /\ s.size + b.size <= MaxBatch
          /\ new_matches' = s.matches \o b.matches
          /\ fetched' = [fetched EXCEPT !.streamed = s.kind, !.sportsonline = b.kind,
                                        !.no_links = s.no_links]
    /\ pc' = "fetched"
    /\ UNCHANGED <<now, cycle, previous, file_state, file_data, existing_data, cleaned,
                   existing_lookup, final_matches, new_count, updated_count>>
    /\ UNCHANGED scribeVars

\* Line 600, the call raising: main logs the error and re-raises (620-622);
\* the other feed is not asked, nothing is merged or saved.
FetchFails ==
    /\ pc = "idle"
    /\ \E s \in StreamedOutcomes :
          /\ s.raises
          /\ fetched' = [fetched EXCEPT !.streamed = s.kind,
                                        !.raised = "fetch_streamed_matches"]
    /\ pc' = "crashed"
    /\ UNCHANGED <<now, cycle, previous, file_state, file_data, new_matches, existing_data,
                   cleaned, existing_lookup, final_matches, new_count, updated_count>>
    /\ UNCHANGED scribeVars

\* load_existing_data: the array of the file; [] when there is no file or
\* json.load rejects it (an empty or cut-off document).
load_existing_data ==
    IF file_state = "complete" THEN file_data ELSE <<>>

Load ==
    /\ pc = "fetched"
    /\ existing_data' = load_existing_data
    /\ pc' = "loaded"
    /\ UNCHANGED <<now, cycle, previous, fetched, file_state, file_data, new_matches, cleaned,
                   existing_lookup, final_matches, new_count, updated_count>>
    /\ UNCHANGED scribeVars

\* Line 608, the call returning.
Merge ==
    /\ pc = "loaded"
    /\ ~MergeRaises(existing_data, now)
    /\ \E r \in merge_with_existing_data(new_matches, existing_data, now) :
          /\ final_matches' = r.merged
          /\ new_count' = r.new_count
          /\ updated_count' = r.updated_count
    /\ cleaned' = cleanup_old_matches(existing_data, now)
    /\ existing_lookup' = BuildLookup(cleaned')
    /\ pc' = "merged"
    /\ UNCHANGED <<now, cycle, previous, fetched, file_state, file_data, new_matches, existing_data>>
    /\ UNCHANGED scribeVars

\* Line 608, the call raising: main logs the error and re-raises (620-622),
\* the process ends and the file is not written.
MergeFails ==
    /\ pc = "loaded"
    /\ MergeRaises(existing_data, now)
    /\ pc' = "crashed"
    /\ UNCHANGED <<now, cycle, previous, fetched, file_state, file_data, new_matches, existing_data,
                   cleaned, existing_lookup, final_matches, new_count, updated_count>>
    /\ UNCHANGED scribeVars

\* save_data, line 582: open(OUTPUT_FILE, 'w') truncates the file.
SaveOpen ==
    /\ pc = "merged"
    /\ file_state' = "empty"
    /\ file_data' = <<>>
    /\ pc' = "writing"
    /\ UNCHANGED <<now, cycle, previous, fetched, new_matches, existing_data, cleaned,
                   existing_lookup, final_matches, new_count, updated_count>>
    /\ UNCHANGED scribeVars

\* save_data, line 582: open fails (no permission, no such directory); the
\* error is logged (585-586) and the file is as it was.
SaveOpenFails ==
    /\ pc = "merged"
    /\ pc' = "done"
    /\ UNCHANGED <<now, cycle, previous, fetched, file_state, file_data, new_matches, existing_data,
                   cleaned, existing_lookup, final_matches, new_count, updated_count>>
    /\ UNCHANGED scribeVars

\* save_data, line 583: json.dump writes the whole array, the file is closed.
SaveWrite ==
    /\ pc = "writing"
    /\ file_state' = "complete"
    /\ file_data' = final_matches
    /\ pc' = "done"
    /\ UNCHANGED <<now, cycle, previous, fetched, new_matches, existing_data, cleaned,
                   existing_lookup, final_matches, new_count, updated_count>>
    /\ UNCHANGED scribeVars

\* save_data, line 583: a write fails part-way (disk full, I/O error); the
\* records written so far stay in the file, the error is logged (585-586).
SaveWriteFails ==
    /\ pc = "writing"
    /\ \E k \in 0..Len(final_matches) :
          /\ k < Len(final_matches) \/ k = 0
          /\ file_data' = SubSeq(final_matches, 1, k)
    /\ file_state' = "partial"
    /\ pc' = "done"
    /\ UNCHANGED <<now, cycle, previous, fetched, new_matches, existing_data, cleaned,
                   existing_lookup, final_matches, new_count, updated_count>>
    /\ UNCHANGED scribeVars

\* The next scheduled run of the script: a new process, the clock the same
\* minute or one minute on.
NextCycle ==
    /\ pc \in {"done", "crashed"}
    /\ cycle < MaxCycles
    /\ cycle' = cycle + 1
    /\ now' \in {now, now + 1}
    /\ previous' = [batch |-> new_matches, clock |-> now,
                    saved |-> pc = "done" /\ file_state = "complete"
                              /\ file_data = final_matches]
    /\ pc' = "idle"
    /\ new_matches' = <<>>
    /\ existing_data' = <<>>
    /\ cleaned' = <<>>
    /\ existing_lookup' = <<>>
    /\ final_matches' = <<>>
    /\ new_count' = 0
    /\ updated_count' = 0
    /\ fetched' = NotFetched
    /\ UNCHANGED <<file_state, file_data>>
    /\ UNCHANGED scribeVars

Next ==
    \/ Fetch
    \/ FetchFails
    \/ Load
    \/ Merge
    \/ MergeFails
    \/ SaveOpen
    \/ SaveOpenFails
    \/ SaveWrite
    \/ SaveWriteFails
    \/ NextCycle

Spec == Init /\ [][Next]_vars

\* What live_events.json can hold after some cycles: the records of
\* InitialPool and records the fetchers emitted, some of them since stale,
\* some under the same key.
PersistedPool ==
    InitialPool
    \cup { Drogon("Arsenal", DEFAULT_LOGO_URL, D1, T1000, <<"u1">>),
           Drogon("Arsenal", DEFAULT_LOGO_URL, D1, T1000, <<"u1", "u1">>),
           Drogon("Arsenal", DEFAULT_LOGO_URL, D1, T0959, <<"u2">>),
           Rec(NoSource, "Arsenal", DEFAULT_LOGO_URL, "Chelsea", DEFAULT_LOGO_URL,
               Missing, T1000, <<"u2">>, "", NoTimestamp) }

\* The merge specification: one call of merge_with_existing_data on a drawn
\* persisted collection and a drawn batch.
InitMerge ==
    /\ now \in {Now0, Now0 + 1}
    /\ pc = "loaded"
    /\ cycle = 1
    /\ previous = [batch |-> <<>>, clock |-> 0, saved |-> FALSE]
    /\ file_state = "complete"
    /\ file_data \in SeqUpTo(PersistedPool, MaxExisting)
    /\ existing_data = file_data
    /\ new_matches \in SeqUpTo(BatchPool, MaxBatch)
    /\ cleaned = <<>>
    /\ existing_lookup = <<>>
    /\ final_matches = <<>>
    /\ new_count = 0
    /\ updated_count = 0
    /\ ScribeOff
    /\ fetched = [NotFetched EXCEPT !.streamed = "list", !.sportsonline = "text"]

NextMerge ==
    \/ Merge
    \/ MergeFails

SpecMerge == InitMerge /\ [][NextMerge]_vars

---------------------------------------------------------------------------
(* winterfell_scribe.py: is_ancient_history, load_archives, update_archives *)

\* is_ancient_history (lines 46-61): no timestamp is never ancient; the age
\* in seconds is compared with the limit.
is_ancient_history(event_timestamp, clock) ==
    IF ~Truthy(event_timestamp) THEN FALSE
    ELSE (clock - event_timestamp) * 60 > ANCIENT_SCROLL_LIMIT

\* Lines 211-227: strptime("%d-%m-%Y %H:%M") accepts the strings, and the
\* parsed time is more than the limit before now; any exception keeps the record.
OldByStrings(record, clock) ==
    /\ record.date.tag \notin {"missing", "empty"}
    /\ record.time.tag \notin {"missing", "empty"}
    /\ record.date.tag = "num" /\ Len(record.date.parts) = 3
    /\ record.time.tag = "num" /\ Len(record.time.parts) = 2
    /\ ValidDateTime(record.date.parts, record.time.parts)
    /\ (clock - Minutes(record.date.parts, record.time.parts)) * 60 > ANCIENT_SCROLL_LIMIT

\* Lines 196-227: is_old of one record.
IsOld(record, clock) ==
    IF Truthy(record.timestamp)
    THEN is_ancient_history(record.timestamp, clock)
    ELSE OldByStrings(record, clock)

IndexOfId(dict, mid) ==
    IF \E i \in 1..Len(dict) : dict[i].match_id = mid
    THEN CHOOSE i \in 1..Len(dict) : dict[i].match_id = mid
    ELSE 0

\* The assignment as a slip would write it: a list that is appended to.
ArchivePut_Append(dict, item) == Append(dict, item)

\* archives[mid] = item: a dict keeps the place of a key it already holds.
ArchivePut(dict, item) ==
    LET j == IndexOfId(dict, item.match_id)
    IN  IF j = 0 THEN Append(dict, item) ELSE [dict EXCEPT ![j] = item]

\* Lines 167-171: the items with a match_id, put one by one.
RECURSIVE PutAll(_, _)
PutAll(dict, items) ==
    IF items = <<>> THEN dict
    ELSE PutAll(IF Head(items).match_id = "" THEN dict ELSE ArchivePut(dict, Head(items)),
                Tail(items))

\* Lines 183-188: archives[m_id] = record for every item of new_data.
RECURSIVE Upsert(_, _)
Upsert(dict, items) ==
    IF items = <<>> THEN dict ELSE Upsert(ArchivePut(dict, Head(items)), Tail(items))

\* load_archives (lines 160-175): {} when there is no file or it cannot be read.
load_archives ==
    IF archive_state = "complete" THEN PutAll(<<>>, archive_file) ELSE <<>>

\* Line 246: the sort key, x.get("_timestamp", 0) or 0.
SortStamp(record) == IF Truthy(record.timestamp) THEN record.timestamp ELSE 0

\* Line 246: list.sort by _timestamp (0 when missing), stable.
RECURSIVE InsertByTimestamp(_, _)
InsertByTimestamp(sorted, record) ==
    IF sorted = <<>> THEN <<record>>
    ELSE IF SortStamp(sorted[Len(sorted)]) <= SortStamp(record)
    THEN Append(sorted, record)
    ELSE Append(InsertByTimestamp(SubSeq(sorted, 1, Len(sorted) - 1), record),
                sorted[Len(sorted)])

RECURSIVE SortByTimestamp(_)
SortByTimestamp(records) ==
    IF records = <<>> THEN <<>>
    ELSE InsertByTimestamp(SortByTimestamp(SubSeq(records, 1, Len(records) - 1)),
                           records[Len(records)])

\* A record as scribe_events builds it (lines 138-155).
Citadel(mid, d, t, ls, ts) ==
    Rec("The Citadel", "Arsenal", DEFAULT_SIGIL, "Chelsea", DEFAULT_SIGIL,
        d, t, ls, mid, ts)

T2300 == Num(<<23, 0>>)         \* "23:00"

\* What the retention cleaner of football_scraper can be handed: kickoffs
\* at the cutoff, one minute before it and well after it, dates and times
\* that are missing, empty, the sentinel, not numbers, not a calendar date,
\* too few pieces, too large for a C int, and records of the other script
\* (with _timestamp) whose strings disagree.
CleanPool ==
    { Drogon("Arsenal", DEFAULT_LOGO_URL, dt[1], dt[2], <<"u1">>) :
        dt \in { <<D1, T1000>>, <<D1, T0959>>, <<D2, T1000>>,
                 <<NotFound, NotFound>>, <<Missing, T1000>>, <<D2, Empty>>,
                 <<Text, T1000>>, <<Num(<<31, 2, 2026>>), T1000>>,
                 <<D1, Num(<<25, 0>>)>>, <<Num(<<3, 2026>>), T1000>>,
                 <<Huge, T1000>> } }
    \cup
    { Citadel("m1", D1, T0959, <<"u1">>, Now0 - 60),
      Citadel("m2", D2, T1000, <<"u1">>, Now0 - 60) }

\* What streamed_events.json can hold before a run: timestamps at the
\* 12-hour limit and one minute past it, the same timestamp under other
\* strings, records without timestamp whose strings are recent, old, at the
\* limit or unusable, a record without match_id, a record whose timestamp
\* is the number 0.
ArchivePool ==
    { Citadel("m1", D1, T2300, <<"u1">>, Now0 - 720),
      Citadel("m1", D1, T0959, <<"u2">>, Now0 - 720),
      Citadel("m2", D1, T2300, <<"u1">>, Now0 - 721),
      Citadel("m2", D2, T1000, <<"u1">>, NoTimestamp),
      Citadel("m3", D1, T1000, <<"u1">>, NoTimestamp),
      Citadel("m3", D1, T2300, <<"u1">>, NoTimestamp),
      Citadel("m4", NotFound, NotFound, <<"u1">>, NoTimestamp),
      Citadel("m4", Huge, T1000, <<"u1">>, NoTimestamp),
      Citadel("", D2, T1000, <<"u1">>, Now0 - 60),
      Citadel("m8", Empty, Empty, <<"u3">>, 0) }

\* Records scribe_events returns (for the first three entries of
\* ScrollPool): one with a recent timestamp, one without timestamp (date
\* and time are then ""), one at the limit.
FreshPool ==
    { Citadel("m1", D2, T1000, <<"u3">>, Now0 - 60),
      Citadel("m2", Empty, Empty, <<"u3">>, NoTimestamp),
      Citadel("m5", D1, T2300, <<"u3">>, Now0 - 720) }

\* The values of a dict: no two with the same match_id.
DistinctIds(records) ==
    \A i, j \in 1..Len(records) : i # j => records[i].match_id # records[j].match_id

\* Lines 109-120: every non-empty embedUrl of every source, in order.
RECURSIVE Visions(_)
Visions(sources) ==
    IF sources = <<>> THEN <<>>
    ELSE SelectSeq(Head(sources), LAMBDA embed_url : embed_url # "") \o Visions(Tail(sources))

\* entry.get("date") (line 81): the minutes of a number, NoTimestamp when
\* the entry has no date.
ScrollTimestamp(entry) ==
    IF entry.date.tag = "ms" THEN entry.date.minutes ELSE NoTimestamp

\* Lines 84-85, 102-103 and 125: the entry is not skipped.
ScribeKeeps(entry, clock) ==
    /\ ~is_ancient_history(ScrollTimestamp(entry), clock)
    /\ Visions(entry.sources) # <<>>

\* Lines 102-103 and 125: the entry is skipped for want of a link.
ScribeSkipsNoLinks(entry, clock) ==
    /\ ~is_ancient_history(ScrollTimestamp(entry), clock)
    /\ Visions(entry.sources) = <<>>

\* Lines 128-136 and 143, 147: a team of the record.  A missing name is
\* "Unknown House"; any value the key holds is taken as it is.
CitadelLogo(badge) ==
    CASE badge = "ars" -> "citadel/ars.webp"
      [] badge = "che" -> "citadel/che.webp"
      [] OTHER -> "citadel/other.webp"

ScribeTeam(name, badge) ==
    [name |-> IF name = RawMissing THEN "Unknown House" ELSE name,
     logo_url |-> IF badge = "" THEN DEFAULT_SIGIL ELSE CitadelLogo(badge)]

\* Lines 138-155: the records the entry can become, one for each order
\* list(set(visions)) can give the links.
ScribeRecords(entry) ==
    { [source_name |-> "The Citadel",
       team1 |-> ScribeTeam(entry.home, entry.home_badge),
       team2 |-> ScribeTeam(entry.away, entry.away_badge),
       date |-> IF ~Truthy(ScrollTimestamp(entry)) THEN Empty
                ELSE DateOf(ScrollTimestamp(entry)),
       time |-> IF ~Truthy(ScrollTimestamp(entry)) THEN Empty
                ELSE TimeOf(ScrollTimestamp(entry)),
       links |-> ls, match_id |-> entry.id,
       timestamp |-> ScrollTimestamp(entry)] : ls \in Perms(Range(Visions(entry.sources))) }

\* Lines 76-156, the loop: new_knowledge[match_id] = event_record.
RECURSIVE ScribeLoop(_, _, _)
ScribeLoop(entries, new_knowledge, clock) ==
    IF entries = <<>> THEN {new_knowledge}
    ELSE IF ~ScribeKeeps(Head(entries), clock)
    THEN ScribeLoop(Tail(entries), new_knowledge, clock)
    ELSE UNION { ScribeLoop(Tail(entries), ArchivePut(new_knowledge, r), clock) :
                   r \in ScribeRecords(Head(entries)) }

\* scribe_events (lines 63-158) when it returns: the dicts it can return,
\* each as the sequence of its values in dict order.
scribe_events(scroll_data, clock) ==
    IF scroll_data.kind = "error" THEN {<<>>}
    ELSE ScribeLoop(scroll_data.entries, <<>>, clock)

\* scribe_events raising: the answer is an object, whose elements have no
\* .get (line 81); a "date" that is a string cannot be divided (line 51);
\* one too large is rejected by fromtimestamp (line 51).
ScribeRaises(scroll_data) ==
    \/ scroll_data.kind = "other"
    \/ \E i \in 1..Len(scroll_data.entries) :
          scroll_data.entries[i].date.tag \in {"text", "huge"}

\* What /api/matches/all can list when the scribe asks: the entries the
\* records of FreshPool come from, and an entry without team names, one
\* with a blank name, one whose date is a string, one that is ancient, one
\* without a usable stream, one without id, one with two URLs, one whose
\* date is the number 0.
Scroll(id, home, date, sources) ==
    Entry(id, "football", home, "", "Chelsea", "", date, sources)

ScrollPool ==
    { Scroll("m1", "Arsenal", Ms(Now0 - 60), << <<"u3">> >>),
      Scroll("m2", "Arsenal", NoTs, << <<"u3">> >>),
      Scroll("m5", "Arsenal", Ms(Now0 - 720), << <<"u3">> >>),
      Scroll("m6", RawMissing, Ms(Now0 - 60), << <<"u3">> >>),
      Scroll("m6", Blank, Ms(Now0 - 60), << <<"u3">> >>),
      Scroll("m7", "Arsenal", TextTs, << <<"u3">> >>),
      Scroll("m7", "Arsenal", Ms(Now0 - 722), << <<"u3">> >>),
      Scroll("m7", "Arsenal", Ms(Now0 - 60), << <<"">>, <<>> >>),
      Scroll("", "Arsenal", Ms(Now0 - 60), << <<"u3">> >>),
      Scroll("m1", "Arsenal", Ms(Now0 - 60), << <<"u1">>, <<"u1", AdminUrl>> >>),
      Scroll("m8", "Arsenal", Ms(0), << <<"u3">> >>) }

ScrollAnswers(n) == {NoAnswer, Other} \cup {Listing(e) : e \in SeqUpTo(ScrollPool, n)}

\* The cleaner of football_scraper, applied to a drawn collection.
Cleanup ==
    /\ pc = "cleaning"
    /\ ~CleanupRaises(existing_data, now)
    /\ cleaned' = cleanup_old_matches(existing_data, now)
    /\ pc' = "cleaned"
    /\ UNCHANGED <<now, cycle, previous, fetched, file_state, file_data, new_matches,
                   existing_data, existing_lookup, final_matches, new_count,
                   updated_count>>
    /\ UNCHANGED scribeVars

\* The cleaner raising: the exception leaves cleanup_old_matches.
CleanupFails ==
    /\ pc = "cleaning"
    /\ CleanupRaises(existing_data, now)
    /\ pc' = "crashed"
    /\ UNCHANGED <<now, cycle, previous, fetched, file_state, file_data, new_matches,
                   existing_data, cleaned, existing_lookup, final_matches,
                   new_count, updated_count>>
    /\ UNCHANGED scribeVars

\* Line 260: scribe_events returns its dict.
ScribeFetch ==
    /\ apc = "start"
    /\ \E s \in ScrollAnswers(MaxFresh) :
          /\ ~ScribeRaises(s)
          /\ new_data' \in scribe_events(s, now)
          /\ fetched' = [fetched EXCEPT
                            !.scrolls = s.kind,
                            !.no_links = Len(SelectSeq(s.entries,
                                LAMBDA e : ScribeSkipsNoLinks(e, now)))]
    /\ apc' = "fetched"
    /\ UNCHANGED <<now, archive_state, archive_file, archives, clean_archives>>
    /\ UNCHANGED scraperVars

\* Line 260, the call raising: nothing catches the exception, the process
\* ends before update_archives.
ScribeFetchFails ==
    /\ apc = "start"
    /\ \E s \in ScrollAnswers(MaxFresh) :
          /\ ScribeRaises(s)
          /\ fetched' = [fetched EXCEPT !.scrolls = s.kind, !.raised = "scribe_events"]
    /\ apc' = "crashed"
    /\ UNCHANGED <<now, archive_state, archive_file, archives, new_data, clean_archives>>
    /\ UNCHANGED scraperVars

\* update_archives, lines 179-246: load, upsert, expire, sort.
UpdateArchives ==
    /\ apc = "fetched"
    /\ archives' = Upsert(load_archives, new_data)
    /\ clean_archives' =
          SortByTimestamp(SelectSeq(archives', LAMBDA r : ~IsOld(r, now)))
    /\ apc' = "computed"
    /\ UNCHANGED <<now, fetched, archive_state, archive_file, new_data>>
    /\ UNCHANGED scraperVars

\* update_archives, line 249: open(ARCHIVES_LOCATION, 'w') truncates the file.
ArchiveOpen ==
    /\ apc = "computed"
    /\ archive_state' = "empty"
    /\ archive_file' = <<>>
    /\ apc' = "writing"
    /\ UNCHANGED <<now, fetched, archives, new_data, clean_archives>>
    /\ UNCHANGED scraperVars

\* update_archives, line 250: json.dump writes the whole array.
ArchiveWrite ==
    /\ apc = "writing"
    /\ archive_state' = "complete"
    /\ archive_file' = clean_archives
    /\ apc' = "done"
    /\ UNCHANGED <<now, fetched, archives, new_data, clean_archives>>
    /\ UNCHANGED scraperVars

\* update_archives, line 250: a write fails part-way; nothing catches the
\* exception and the process ends.
ArchiveWriteFails ==
    /\ apc = "writing"
    /\ \E k \in 0..Len(clean_archives) :
          /\ k < Len(clean_archives) \/ k = 0
          /\ archive_file' = SubSeq(clean_archives, 1, k)
    /\ archive_state' = "partial"
    /\ apc' = "crashed"
    /\ UNCHANGED <<now, fetched, archives, new_data, clean_archives>>
    /\ UNCHANGED scraperVars

\* The retention specification starts either with a collection handed to
\* cleanup_old_matches or with an archive file and a run of the scribe.
InitRetention ==
    /\ now \in {Now0, Now0 + 1}
    /\ cycle = 1
    /\ previous = [batch |-> <<>>, clock |-> 0, saved |-> FALSE]
    /\ file_state = "absent"
    /\ file_data = <<>>
    /\ new_matches = <<>>
    /\ cleaned = <<>>
    /\ existing_lookup = <<>>
    /\ final_matches = <<>>
    /\ new_count = 0
    /\ updated_count = 0
    /\ archives = <<>>
    /\ new_data = <<>>
    /\ clean_archives = <<>>
    /\ fetched = NotFetched
    /\ \/ /\ pc = "cleaning"
          /\ existing_data \in SeqUpTo(CleanPool, MaxClean)
          /\ apc = "off"
          /\ archive_state = "absent"
          /\ archive_file = <<>>
       \/ /\ pc = "off"
          /\ existing_data = <<>>
          /\ apc = "start"
          /\ \/ archive_state = "absent" /\ archive_file = <<>>
             \/ archive_state = "complete"
                /\ archive_file \in SeqUpTo(ArchivePool, MaxClean)

NextRetention ==
    \/ Cleanup
    \/ CleanupFails
    \/ ScribeFetch
    \/ ScribeFetchFails
    \/ UpdateArchives
    \/ ArchiveOpen
    \/ ArchiveWrite
    \/ ArchiveWriteFails

SpecRetention == InitRetention /\ [][NextRetention]_vars

\* The run specification: one cycle of football_scraper on a drawn
\* live_events.json, or one run of winterfell_scribe on a drawn
\* streamed_events.json, from the fetch to the write.
InitRun ==
    /\ now = Now0
    /\ cycle = MaxCycles
    /\ previous = [batch |-> <<>>, clock |-> 0, saved |-> FALSE]
    /\ fetched = NotFetched
    /\ ScraperIdle
    /\ archives = <<>>
    /\ new_data = <<>>
    /\ clean_archives = <<>>
    /\ \/ /\ pc = "idle"
          /\ apc = "off"
          /\ archive_state = "absent" /\ archive_file = <<>>
          /\ \/ file_state = "absent" /\ file_data = <<>>
             \/ file_state = "complete" /\ file_data \in SeqUpTo(PersistedPool, MaxInitial)
       \/ /\ pc = "off"
          /\ apc = "start"
          /\ file_state = "absent" /\ file_data = <<>>
          /\ \/ archive_state = "absent" /\ archive_file = <<>>
             \/ archive_state = "complete"
                /\ archive_file \in SeqUpTo(ArchivePool, MaxInitial)

NextRun ==
    \/ Fetch
    \/ FetchFails
    \/ Load
    \/ Merge
    \/ MergeFails
    \/ SaveOpen
    \/ SaveOpenFails
    \/ SaveWrite
    \/ SaveWriteFails
    \/ ScribeFetch
    \/ ScribeFetchFails
    \/ UpdateArchives
    \/ ArchiveOpen
    \/ ArchiveWrite
    \/ ArchiveWriteFails

SpecRun == InitRun /\ [][NextRun]_vars

---------------------------------------------------------------------------
(* Notions the properties are stated with                                  *)

\* Section 4.1 of the specification: trim, lower-case, feminine designator
\* to " women", collapse blanks; on the names the model uses.
NormalizeName(name) ==
    CASE name = "Arsenal" -> "arsenal"
      [] name = "Chelsea" -> "chelsea"
      [] OTHER -> name

\* The identity key of the data model.
IdentityKey(match) ==
    <<match.source_name, NormalizeName(match.team1.name),
      NormalizeName(match.team2.name), match.date>>

\* The kickoff of a record's date and time strings can be resolved.
Resolvable(match) ==
    /\ match.date.tag = "num" /\ Len(match.date.parts) = 3
    /\ match.time.tag = "num" /\ Len(match.time.parts) = 2
    /\ ValidDateTime(match.date.parts, match.time.parts)

Kickoff(match) == Minutes(match.date.parts, match.time.parts)

\* The merge of this cycle has returned.
MergeReturned == pc \in {"merged", "writing", "done"}

\* The i-th batch record is the one that claims a persisted record: its key
\* is in the lookup and no earlier batch record has the key.
Claims(i) ==
    /\ i \in 1..Len(new_matches)
    /\ IndexOfKey(existing_lookup, Key(new_matches[i])) # 0
    /\ \A k \in 1..(i - 1) : Key(new_matches[k]) # Key(new_matches[i])

\* The persisted record the i-th batch record claims.
Claimed(i) == existing_lookup[IndexOfKey(existing_lookup, Key(new_matches[i]))]

Count(s, x) == Cardinality({i \in 1..Len(s) : s[i] = x})

SameRecords(s, t) ==
    \A x \in Range(s) \cup Range(t) : Count(s, x) = Count(t, x)

---------------------------------------------------------------------------
(* Properties of the merge and of the cycle (specification Spec)           *)

\* C1: the list merge_with_existing_data returns holds no two records with
\* the same identity key (source_name, normalized team1 name, normalized
\* team2 name, date), after any number of cycles and whatever the batch.
C1_NoDuplicateIdentity ==
    MergeReturned =>
        \A i, j \in 1..Len(final_matches) :
            i # j => IdentityKey(final_matches[i]) # IdentityKey(final_matches[j])

IsSurvivorOf(out, p) ==
    /\ Key(out) = Key(p)
    /\ out.time = p.time
    /\ Range(p.links) \subseteq Range(out.links)
    /\ out.team1.logo_url \in {p.team1.logo_url}
          \cup (IF p.team1.logo_url = DEFAULT_LOGO_URL THEN {out.team1.logo_url} ELSE {})
    /\ out.team2.logo_url \in {p.team2.logo_url}
          \cup (IF p.team2.logo_url = DEFAULT_LOGO_URL THEN {out.team2.logo_url} ELSE {})

\* C3: every persisted record that has source_name and that the retention
\* cleanup kept is in the merge's output, enriched or unchanged.
C3_PersistedSurvive ==
    MergeReturned =>
        \A i \in 1..Len(cleaned) :
            cleaned[i].source_name # NoSource =>
                \E k \in 1..Len(final_matches) : IsSurvivorOf(final_matches[k], cleaned[i])

\* C4: when a batch record claims a persisted record and brings URLs the
\* persisted record does not have, the merged record's links are, as a set,
\* the union of the persisted links and the batch links.
C4_LinksAreUnion ==
    MergeReturned =>
        \A i \in 1..Len(new_matches) :
            (Claims(i) /\ ~(Range(new_matches[i].links) \subseteq Range(Claimed(i).links)))
            => Range(final_matches[i].links)
                 = Range(Claimed(i).links) \cup Range(new_matches[i].links)

\* C5: the merge is idempotent: run again with the same batch, at the same
\* clock, on the collection the run before saved, it counts 0 new and 0
\* updated records and returns the same records.
C5_MergeIdempotent ==
    (/\ MergeReturned
     /\ previous.saved
     /\ previous.batch = new_matches
     /\ previous.clock = now)
    => /\ new_count = 0
       /\ updated_count = 0
       /\ SameRecords(final_matches, existing_data)

\* C9: the collection a cycle writes holds no record whose kickoff is
\* strictly older than now minus the retention window, from the persisted
\* collection or from the batch.
C9_NoStaleRecordSaved ==
    (pc = "done" /\ file_state = "complete" /\ file_data = final_matches)
    => \A i \in 1..Len(file_data) :
          Resolvable(file_data[i])
          => ~(Kickoff(file_data[i]) < now - MATCH_CLEANUP_HOURS * 60)

\* C10: persisting is all-or-nothing: outside the write itself, also after a
\* write that failed part-way, live_events.json holds a complete document.
C10_AllOrNothing ==
    pc # "writing" => file_state \in {"absent", "complete"}

---------------------------------------------------------------------------
(* Properties of the retention cleaners (specification SpecRetention)      *)

\* update_archives has computed clean_archives.
ArchivesCleaned == apc \in {"computed", "writing", "done", "crashed"}

\* The kickoff instant of an archive record: the timestamp when it has one,
\* else the parsed strings.
HasInstant(record) == Truthy(record.timestamp) \/ Resolvable(record)

Instant(record) ==
    IF Truthy(record.timestamp) THEN record.timestamp ELSE Kickoff(record)

C7_FailOpen ==
    /\ pc # "crashed"
    /\ pc = "cleaned" =>
          \A i \in 1..Len(existing_data) :
             (~Truthy(existing_data[i].timestamp) /\ ~Resolvable(existing_data[i]))
             => existing_data[i] \in Range(cleaned)
    /\ ArchivesCleaned =>
          \A i \in 1..Len(archives) :
             (~Truthy(archives[i].timestamp) /\ ~Resolvable(archives[i]))
             => archives[i] \in Range(clean_archives)

\* C8: a record's timestamp, when it has one, decides whether a cleaner
\* keeps it: two records with the same timestamp get the same decision
\* whatever their date and time strings, in both cleaners.
C8_TimestampDecides ==
    /\ pc = "cleaned" =>
          \A i, j \in 1..Len(existing_data) :
             (Truthy(existing_data[i].timestamp)
                /\ existing_data[i].timestamp = existing_data[j].timestamp)
             => (existing_data[i] \in Range(cleaned)
                   <=> existing_data[j] \in Range(cleaned))
    /\ ArchivesCleaned =>
          \A i, j \in 1..Len(archives) :
             (Truthy(archives[i].timestamp)
                /\ archives[i].timestamp = archives[j].timestamp)
             => (archives[i] \in Range(clean_archives)
                   <=> archives[j] \in Range(clean_archives))

---------------------------------------------------------------------------
(* Records of an older format                                              *)

\* The persisted records that have a source_name.
WithoutLegacy(records) == SelectSeq(records, LAMBDA m : m.source_name # NoSource)

\* C11: a persisted record without source_name is not in the lookup and not
\* in what merge_with_existing_data returns, it does not make the call
\* raise (not even when it lacks the key date as well), and the call ends as
\* it can end on the same batch and the persisted records without it: the
\* same collections, the same counts, and an exception only when the other
\* persisted records raise one.
C11_LegacyExcluded ==
    /\ pc = "merged" =>
          /\ \A i \in 1..Len(existing_lookup) : existing_lookup[i].source_name # NoSource
          /\ \A i \in 1..Len(final_matches) : final_matches[i].source_name # NoSource
          /\ [merged |-> final_matches, new_count |-> new_count,
              updated_count |-> updated_count]
                \in merge_with_existing_data(new_matches, WithoutLegacy(existing_data), now)
    /\ pc = "crashed" => MergeRaises(WithoutLegacy(existing_data), now)

\* The merge returned on a persisted collection that holds a record without
\* source_name and without date beside a record that the batch updates.
C11_Witness ==
    /\ pc = "merged"
    /\ \E i \in 1..Len(existing_data) :
          existing_data[i].source_name = NoSource /\ existing_data[i].date = Missing
    /\ \E i \in 1..Len(existing_data) : existing_data[i].source_name # NoSource
    /\ updated_count > 0

\* A record in the current format without one of the keys the data model
\* requires; of these the model's records can lack the key date.
LacksRequiredKey(match) == match.source_name # NoSource /\ match.date = Missing

\* C12: a persisted record that lacks a required key never makes the cycle
\* raise (the merge does not end in an exception unless the cleaner raised
\* one) and is not in the collection the merge returns.
C12_MissingKeyExcluded ==
    \A i \in 1..Len(existing_data) :
        LacksRequiredKey(existing_data[i]) =>
            /\ ~(pc = "crashed" /\ fetched.raised = ""
                 /\ ~CleanupRaises(existing_data, now))
            /\ MergeReturned => existing_data[i] \notin Range(final_matches)

---------------------------------------------------------------------------
(* The fetchers                                                            *)

\* The answer of a feed is no list of matches: the request failed, or what
\* came back is something else.
FetchFailed(kind) == kind \in {"error", "other"}

\* C13: when the fetch of one feed fails, that feed contributes no record to
\* the batch and the run is not ended by it: no fetcher raises, and the
\* batch holds the other feed's records only.
C13_FailedFetchIsEmpty ==
    /\ FetchFailed(fetched.streamed) =>
          /\ fetched.raised = ""
          /\ \A i \in 1..Len(new_matches) : new_matches[i].source_name # "Drogon"
    /\ FetchFailed(fetched.sportsonline) =>
          \A i \in 1..Len(new_matches) : new_matches[i].source_name # "THE BETTER BASTARD"

\* C14: a fetcher that is answered a list of entries does not raise,
\* whatever is malformed in an entry: the entry is skipped and the loop
\* goes on.
C14_MalformedEntrySkipped ==
    /\ fetched.streamed = "list" => fetched.raised # "fetch_streamed_matches"
    /\ fetched.scrolls = "list" => fetched.raised # "scribe_events"

\* The team names of a record are names: not empty, not blank, not null and
\* none of the placeholders the fetchers use.
HasTeamNames(match) ==
    /\ is_valid_team_data(match.team1.name, match.team2.name)
    /\ match.team1.name # "Unknown House"
    /\ match.team2.name # "Unknown House"

\* C15: every record a fetcher emits has two team names that are not empty,
\* not blank and not a placeholder: the batch of football_scraper and the
\* dict scribe_events returns.
C15_EmittedNamesValid ==
    /\ \A i \in 1..Len(new_matches) : HasTeamNames(new_matches[i])
    /\ \A i \in 1..Len(new_data) : HasTeamNames(new_data[i])

\* Every record of the collection has a link.
AllHaveLinks(records) == \A i \in 1..Len(records) : records[i].links # <<>>

\* C16: every record written to disk has at least one link, when the
\* records already on disk have one: the fetchers emit no record without
\* links, the merge and the upsert return none, and neither file holds one.
C16_SavedRecordsHaveLinks ==
    /\ AllHaveLinks(new_matches)
    /\ AllHaveLinks(new_data)
    /\ AllHaveLinks(final_matches)
    /\ AllHaveLinks(clean_archives)
    /\ AllHaveLinks(file_data)
    /\ AllHaveLinks(archive_file)

\* A feed listed an entry without a usable stream, the fetcher skipped it,
\* and the collection of that run is on disk with a record in it.
C16_Witness ==
    /\ fetched.no_links > 0
    /\ \/ pc = "done" /\ file_state = "complete" /\ file_data = final_matches
          /\ new_matches # <<>>
       \/ apc = "done" /\ archive_state = "complete" /\ archive_file = clean_archives
          /\ new_data # <<>> /\ clean_archives # <<>>

\* No URL occurs twice in the sequence.
NoRepeats(links) == Cardinality(Range(links)) = Len(links)

\* C17: the links of every record a fetcher emits and of every record of a
\* merged collection hold no URL twice.
C17_LinksDistinct ==
    /\ \A i \in 1..Len(new_matches) : NoRepeats(new_matches[i].links)
    /\ \A i \in 1..Len(new_data) : NoRepeats(new_data[i].links)
    /\ \A i \in 1..Len(final_matches) : NoRepeats(final_matches[i].links)

---------------------------------------------------------------------------
(* The archive of winterfell_scribe                                        *)

\* C18: after the upsert loop of update_archives, the record stored for a
\* match_id that was archived and is fetched again holds every link the
\* archived record held.
C18_UpsertKeepsLinks ==
    apc = "computed" =>
        \A i \in 1..Len(load_archives) : \A j \in 1..Len(new_data) :
            load_archives[i].match_id = new_data[j].match_id =>
                \A k \in 1..Len(archives) :
                    archives[k].match_id = new_data[j].match_id =>
                        Range(load_archives[i].links) \subseteq Range(archives[k].links)

---------------------------------------------------------------------------
(* The two feeds                                                           *)

\* Two records name the same fixture: the normalized team names are equal
\* pair by pair (the similarity of section 4.2 is then 1.0, which is at or
\* above every threshold) and so are date and time.
SameFixture(l, r) ==
    /\ NormalizeName(l.team1.name) = NormalizeName(r.team1.name)
    /\ NormalizeName(l.team2.name) = NormalizeName(r.team2.name)
    /\ l.date = r.date
    /\ l.time = r.time

---------------------------------------------------------------------------
(* Logos                                                                   *)

\* A logo_url went from before to after in a merge with a batch record
\* whose logo_url is offered: either it did not change, or it was the
\* placeholder and is now the offered logo, which is not the placeholder.
LogoStep(before, after, offered) ==
    \/ after = before
    \/ before = DEFAULT_LOGO_URL /\ after = offered /\ offered # DEFAULT_LOGO_URL

\* C20: in merge_with_existing_data the logo_url of a team of a matched
\* persisted record changes only from the placeholder DEFAULT_LOGO_URL to
\* the batch record's logo when that is not the placeholder; a logo that is
\* not the placeholder stays; and but for the two logo_urls and links the
\* matched record is returned as it was.
C20_LogoOnlyFromPlaceholder ==
    MergeReturned =>
        \A i \in 1..Len(new_matches) :
            Claims(i) =>
                /\ LogoStep(Claimed(i).team1.logo_url, final_matches[i].team1.logo_url,
                            new_matches[i].team1.logo_url)
                /\ LogoStep(Claimed(i).team2.logo_url, final_matches[i].team2.logo_url,
                            new_matches[i].team2.logo_url)
                /\ [final_matches[i] EXCEPT
                      !.team1.logo_url = Claimed(i).team1.logo_url,
                      !.team2.logo_url = Claimed(i).team2.logo_url,
                      !.links = Claimed(i).links] = Claimed(i)

\* The merge matched a persisted record that has a logo of its own for one
\* team and the placeholder for the other with a batch record that offers
\* other logos for both: the first stayed, the second was taken.
C20_Witness ==
    /\ pc = "merged"
    /\ \E i \in 1..Len(new_matches) :
          /\ Claims(i)
          /\ Claimed(i).team1.logo_url # DEFAULT_LOGO_URL
          /\ new_matches[i].team1.logo_url
                \notin {DEFAULT_LOGO_URL, Claimed(i).team1.logo_url}
          /\ final_matches[i].team1.logo_url = Claimed(i).team1.logo_url
          /\ Claimed(i).team2.logo_url = DEFAULT_LOGO_URL
          /\ final_matches[i].team2.logo_url # DEFAULT_LOGO_URL

---------------------------------------------------------------------------
(* The persisted records no batch record claims                            *)

\* Some record of the batch has the key of the persisted record p.
KeyInBatch(p) == \E i \in 1..Len(new_matches) : Key(new_matches[i]) = Key(p)

\* The lookup's records no batch record claims, in the lookup's order.
Unclaimed == SelectSeq(existing_lookup, LAMBDA p : ~KeyInBatch(p))

\* The places of the output that hold the persisted record p: the place of
\* the batch record that claimed it, and the places after the batch's
\* records where it was appended as it is.
PlacesOf(p) ==
    {i \in 1..Len(new_matches) : Claims(i) /\ Claimed(i) = p}
    \cup {k \in (Len(new_matches) + 1)..Len(final_matches) : final_matches[k] = p}

\* C21: every persisted record in the lookup is in the output of
\* merge_with_existing_data exactly once. The output is one record for each
\* batch record, in the batch's order, followed by the lookup's records
\* whose key no batch record has, in the lookup's order and each as it was
\* (every field, the links and their order); a record whose key a batch
\* record has is at the place of the first batch record with that key,
\* with its key and time, and is not among the records appended after.
C21_UnclaimedAppendedOnce ==
    MergeReturned =>
        LET n == Len(new_matches)
        IN  /\ Len(final_matches) = n + Len(Unclaimed)
            /\ SubSeq(final_matches, n + 1, Len(final_matches)) = Unclaimed
            /\ \A j \in 1..Len(existing_lookup) :
                  LET p == existing_lookup[j]
                  IN  /\ Cardinality(PlacesOf(p)) = 1
                      /\ KeyInBatch(p) =>
                            /\ \E i \in 1..n :
                                  /\ PlacesOf(p) = {i}
                                  /\ Key(final_matches[i]) = Key(p)
                                  /\ final_matches[i].time = p.time
                            /\ \A k \in (n + 1)..Len(final_matches) :
                                  Key(final_matches[k]) # Key(p)

\* The merge returned with a lookup of two records, one claimed by a batch
\* record that brought it a link, the other claimed by none and appended
\* after a batch record that is new.
C21_Witness ==
    /\ pc = "merged"
    /\ Len(existing_lookup) = 2
    /\ Len(Unclaimed) = 1
    /\ new_count = 1
    /\ updated_count = 1
    /\ final_matches[Len(final_matches)] = Unclaimed[1]

---------------------------------------------------------------------------
(* Stale persisted records and the batch                                   *)

\* The persisted record has source_name and the retention cleanup of this
\* merge removed it: its kickoff is before the cutoff.
Stale(match) ==
    match.source_name # NoSource /\ MatchOutcome(match, now) = "remove"

\* C22: the retention cleanup runs on the persisted collection before the
\* lookup is built: when a persisted record is stale and the batch holds a
\* record with the same key, what merge_with_existing_data returns holds
\* that batch record at its place as a new record, as it was fetched, with
\* nothing of the stale record (links, logos) in it.
C22_StaleNeverBlocks ==
    MergeReturned =>
        \A j \in 1..Len(existing_data) :
            Stale(existing_data[j]) =>
                \A i \in 1..Len(new_matches) :
                    Key(new_matches[i]) = Key(existing_data[j])
                    => final_matches[i] = new_matches[i]

---------------------------------------------------------------------------
(* The archive as update_archives writes it                                *)

\* update_archives has written streamed_events.json in full.
ArchiveWritten == apc = "done" /\ archive_state = "complete"

\* The record has a _timestamp that is not null, and it is more than 12
\* hours before the clock.
AncientByTimestamp(record, clock) ==
    /\ record.timestamp # NoTimestamp
    /\ (clock - record.timestamp) * 60 > ANCIENT_SCROLL_LIMIT

\* C23: the archive update_archives writes holds no record whose non-null
\* _timestamp is more than 12 hours before the time of the cleanup, be the
\* record fetched in this run or loaded from the archive of the run before.
C23_NoAncientArchived ==
    ArchiveWritten =>
        \A i \in 1..Len(archive_file) : ~AncientByTimestamp(archive_file[i], now)

\* No two records of the list have the same match_id.
DistinctMatchIds(records) ==
    \A i, j \in 1..Len(records) :
        i # j => records[i].match_id # records[j].match_id

\* The archive file the run found holds a record with this match_id.
Archived(mid) ==
    /\ archive_state = "complete"
    /\ \E i \in 1..Len(archive_file) : archive_file[i].match_id = mid

\* C24: the archive update_archives writes never holds two records with
\* the same match_id, whatever the archive file before (one with repeated
\* match_ids too) and whatever was fetched; of a match_id that is in the
\* file before and in the fetched set, the archive written holds the
\* fetched record (when the cleanup does not find it ancient) and no other.
C24_OneRecordPerMatchId ==
    /\ ArchiveWritten => DistinctMatchIds(archive_file)
    /\ apc = "computed" =>
          /\ DistinctMatchIds(clean_archives)
          /\ \A k \in 1..Len(new_data) :
                Archived(new_data[k].match_id) =>
                   /\ \A j \in 1..Len(clean_archives) :
                         clean_archives[j].match_id = new_data[k].match_id
                         => clean_archives[j] = new_data[k]
                   /\ ~IsOld(new_data[k], now) => new_data[k] \in Range(clean_archives)

\* update_archives found a file with two records of one match_id, neither
\* of them ancient, and a fetched record of that match_id that differs from
\* both: the list it is about to write holds the fetched record.
C24_Witness ==
    /\ apc = "computed"
    /\ ~DistinctMatchIds(archive_file)
    /\ \E k \in 1..Len(new_data) :
          /\ Archived(new_data[k].match_id)
          /\ new_data[k] \notin Range(archive_file)
          /\ \A i \in 1..Len(archive_file) :
                /\ archive_file[i].match_id = new_data[k].match_id
                /\ ~IsOld(archive_file[i], now)
          /\ new_data[k] \in Range(clean_archives)

===========================================================================
